---- MODULE Spec2Model ----
(***************************************************************************)
(* The bridge-and-flashlight solver of Module-2/Dangerous_Crossing_BFS_   *)
(* Solver.ipynb: a FIFO queue of (left, right, light, time_spent, path)    *)
(* entries, a visited table of the best cost seen per state, and the       *)
(* running optimum (min_time, best_path).  One action is one iteration of  *)
(* the `while queue` loop.                                                 *)
(***************************************************************************)
EXTENDS Integers, Sequences, FiniteSets, TLC

\* ------------------------------------------------------------------ bounds
\* Largest number of agents in a cost table of the general specification.
MaxAgents == 3
\* Largest individual crossing time in a cost table (times range over 0..MaxCost).
MaxCost == 2

\* --------------------------------------------------------------- constants
\* float('inf'): the value min_time starts with; greater than every time.
INF == -1

AgentNames == <<"A", "B", "C", "D", "E", "F">>

VARIABLES
    times,      \* dict: agent -> crossing time
    order,      \* the iteration order of a frozenset of agent names (hash order)
    queue,      \* deque of entries
    visited,    \* dict: state_id -> best known time_spent
    min_time,   \* best total found so far, INF when none
    best_path,  \* the path of the best goal entry popped so far
    cur,        \* left, right, light, time_spent, path: the entry popped last
    pc,         \* "loop" inside the while loop, "done" after it
    run,        \* how many times the cell has been executed
    prev        \* the input and the printed result of the previous execution

vars == <<times, order, queue, visited, min_time, best_path, cur, pc, run, prev>>

\* ------------------------------------------------------------------ helpers
People == DOMAIN times

Max2(x, y) == IF x >= y THEN x ELSE y

\* t < m where m may be float('inf')
LessThan(t, m) == IF m = INF THEN t # INF ELSE (t # INF /\ t < m)

\* All orders in which a set of agents can be enumerated.
Perms(S) == {p \in [1..Cardinality(S) -> S] : \A i, j \in 1..Cardinality(S) : p[i] = p[j] => i = j}

\* list(s) / `for p in s` for a frozenset s of agents: its members in hash order.
ListOf(s) == SelectSeq(order, LAMBDA x : x \in s)

\* The index pairs the nested loops `for i ... for j in range(i + 1, ...)` visit,
\* in the order they visit them.
PairAt(k, n) == CHOOSE pr \in (1..k) \X (1..k) :
                    /\ pr[1] < pr[2]
                    /\ n = Cardinality({q \in (1..k) \X (1..k) :
                                          /\ q[1] < q[2]
                                          /\ \/ q[1] < pr[1]
                                             \/ (q[1] = pr[1] /\ q[2] <= pr[2])})

NumPairs(k) == (k * (k - 1)) \div 2

\* initial_state for the cost table t: everyone on the left, with the light
initial_state(t) == [left |-> DOMAIN t, right |-> {}, light |-> "left",
                     time_spent |-> 0, path |-> <<>>]

StateId(e) == <<e.left, e.right, e.light>>

\* A search that never revisits a recorded state, whatever the cost.
IsStaleSeen(e) == StateId(e) \in DOMAIN visited

\* A stale check that lets an entry of equal cost through.
IsStaleStrict(e) == StateId(e) \in DOMAIN visited /\ visited[StateId(e)] < e.time_spent

\* `state_id in visited and visited[state_id] <= time_spent`
IsStale(e) == StateId(e) \in DOMAIN visited /\ visited[StateId(e)] <= e.time_spent

\* A goal check that looks at the light only.
IsGoalLightOnly(e) == e.light = "right"

\* `len(left) == 0 and light == 'right'`
IsGoal(e) == Cardinality(e.left) = 0 /\ e.light = "right"

\* visited[state_id] = time_spent
Record(e) == [s \in DOMAIN visited \cup {StateId(e)} |->
                 IF s = StateId(e) THEN e.time_spent ELSE visited[s]]

Min2(x, y) == IF x <= y THEN x ELSE y

\* A forward move charged the faster agent's time.
ForwardEntryMin(e, a, b) ==
    [left |-> e.left \ {a, b}, right |-> e.right \cup {a, b}, light |-> "right",
     time_spent |-> e.time_spent + Min2(times[a], times[b]),
     path |-> Append(e.path, <<a, b>>)]

\* One entry appended by the forward loop body for the pair (a, b).
ForwardEntry(e, a, b) ==
    [left |-> e.left \ {a, b}, right |-> e.right \cup {a, b}, light |-> "right",
     time_spent |-> e.time_spent + Max2(times[a], times[b]),
     path |-> Append(e.path, <<a, b>>)]

\* The entries the `light == 'left'` branch appends, in order.
ForwardEntries(e) ==
    LET people == ListOf(e.left)
        k == Len(people)
    IN [n \in 1..NumPairs(k) |->
           ForwardEntry(e, people[PairAt(k, n)[1]], people[PairAt(k, n)[2]])]

\* A return move that leaves the returning person in the right set.
ReturnEntryKeepRight(e, p) ==
    [left |-> e.left \cup {p}, right |-> e.right, light |-> "left",
     time_spent |-> e.time_spent + times[p],
     path |-> Append(e.path, <<p>>)]

\* A return move that forgets the time spent so far.
ReturnEntryReset(e, p) ==
    [left |-> e.left \cup {p}, right |-> e.right \ {p}, light |-> "left",
     time_spent |-> times[p],
     path |-> Append(e.path, <<p>>)]

\* One entry appended by the return loop body for the person p.
ReturnEntry(e, p) ==
    [left |-> e.left \cup {p}, right |-> e.right \ {p}, light |-> "left",
     time_spent |-> e.time_spent + times[p],
     path |-> Append(e.path, <<p>>)]

\* A return loop that skips the first person of the right side.
ReturnEntriesButFirst(e) ==
    LET back == ListOf(e.right)
    IN [n \in 1..(Len(back) - 1) |-> ReturnEntry(e, back[n + 1])]

\* The entries the else branch appends, in order.
ReturnEntries(e) ==
    LET back == ListOf(e.right)
    IN [n \in 1..Len(back) |-> ReturnEntry(e, back[n])]

\* ------------------------------------------------------------------- inputs
AgentSet(n) == {AgentNames[i] : i \in 1..n}

\* Every cost table over the first n agents, n <= MaxAgents, times in 0..MaxCost.
Tables == UNION {[AgentSet(n) -> 0..MaxCost] : n \in 0..MaxAgents}

\* The loop variables before the first popleft(): not bound yet.
NoEntry == [left |-> {}, right |-> {}, light |-> "unbound", time_spent |-> 0,
            path |-> <<>>]

\* A setup that starts min_time at 0 instead of infinity.
SetupZero(t, o) ==
    /\ times = t
    /\ order = o
    /\ queue = <<initial_state(t)>>
    /\ visited = <<>>
    /\ min_time = 0
    /\ best_path = <<>>
    /\ cur = NoEntry
    /\ pc = "loop"

Setup(t, o) ==
    /\ times = t
    /\ order = o
    /\ queue = <<initial_state(t)>>
    /\ visited = <<>>
    /\ min_time = INF
    /\ best_path = <<>>
    /\ cur = NoEntry
    /\ pc = "loop"

NoPrev == [times |-> <<>>, min_time |-> INF, best_path |-> <<>>]

Init ==
    /\ \E t \in Tables : \E o \in Perms(DOMAIN t) : Setup(t, o)
    /\ run = 1
    /\ prev = NoPrev

\* The notebook's own input.
TimesABCD == [a \in AgentSet(4) |-> CASE a = "A" -> 1 [] a = "B" -> 2
                                       [] a = "C" -> 5 [] a = "D" -> 8]

InitABCD ==
    /\ \E o \in Perms(DOMAIN TimesABCD) : Setup(TimesABCD, o)
    /\ run = 1
    /\ prev = NoPrev

\* ------------------------------------------------------------------ actions
\* A stale entry put back at the end of the queue instead of dropped.
PopStaleRequeue ==
    /\ pc = "loop" /\ queue # <<>>
    /\ IsStale(Head(queue))
    /\ cur' = Head(queue)
    /\ queue' = Append(Tail(queue), Head(queue))
    /\ UNCHANGED <<times, order, visited, min_time, best_path, pc, run, prev>>

\* An iteration that pops an entry whose state is recorded at no greater cost.
PopStale ==
    /\ pc = "loop" /\ queue # <<>>
    /\ IsStale(Head(queue))
    /\ cur' = Head(queue)
    /\ queue' = Tail(queue)
    /\ UNCHANGED <<times, order, visited, min_time, best_path, pc, run, prev>>

\* An iteration that pops a goal entry.
PopGoal ==
    /\ pc = "loop" /\ queue # <<>>
    /\ LET e == Head(queue) IN
        /\ cur' = e
        /\ ~IsStale(e)
        /\ IsGoal(e)
        /\ visited' = Record(e)
        /\ IF LessThan(e.time_spent, min_time)
             THEN min_time' = e.time_spent /\ best_path' = e.path
             ELSE UNCHANGED <<min_time, best_path>>
        /\ queue' = Tail(queue)
    /\ UNCHANGED <<times, order, pc, run, prev>>

\* An iteration that expands an entry with the light on the left.
ExpandLeft ==
    /\ pc = "loop" /\ queue # <<>>
    /\ LET e == Head(queue) IN
        /\ cur' = e
        /\ ~IsStale(e)
        /\ ~IsGoal(e)
        /\ e.light = "left"
        /\ visited' = Record(e)
        /\ queue' = Tail(queue) \o ForwardEntries(e)
    /\ UNCHANGED <<times, order, min_time, best_path, pc, run, prev>>

\* A return expansion that puts its entries at the front of the queue.
ExpandRightAppendLeft ==
    /\ pc = "loop" /\ queue # <<>>
    /\ LET e == Head(queue) IN
        /\ cur' = e
        /\ ~IsStale(e)
        /\ ~IsGoal(e)
        /\ e.light # "left"
        /\ visited' = Record(e)
        /\ queue' = ReturnEntries(e) \o Tail(queue)
    /\ UNCHANGED <<times, order, min_time, best_path, pc, run, prev>>

\* An iteration that expands a non-goal entry with the light on the right.
ExpandRight ==
    /\ pc = "loop" /\ queue # <<>>
    /\ LET e == Head(queue) IN
        /\ cur' = e
        /\ ~IsStale(e)
        /\ ~IsGoal(e)
        /\ e.light # "left"
        /\ visited' = Record(e)
        /\ queue' = Tail(queue) \o ReturnEntries(e)
    /\ UNCHANGED <<times, order, min_time, best_path, pc, run, prev>>

\* `while queue` finds the queue empty: the loop ends and the result is printed.
Finish ==
    /\ pc = "loop" /\ queue = <<>>
    /\ pc' = "done"
    /\ UNCHANGED <<times, order, queue, visited, min_time, best_path, cur, run, prev>>

Next == PopStale \/ PopGoal \/ ExpandLeft \/ ExpandRight \/ Finish

Spec == Init /\ [][Next]_vars

\* The notebook's run on its own input, under every hash order.
SpecABCD == InitABCD /\ [][Next]_vars

\* The loop is sequential code: an iteration that can run does run.
FairSpec == Init /\ [][Next]_vars /\ WF_vars(Next)

\* Cost tables that equal t or differ from it in one agent, whose time is larger.
RaisedTables(t) ==
    {u \in [DOMAIN t -> 0..MaxCost] :
        \E a \in DOMAIN t : /\ u[a] >= t[a]
                             /\ \A b \in DOMAIN t \ {a} : u[b] = t[b]} \cup {t}

\* The cell is executed a second time, in a fresh interpreter (a new hash order),
\* on the same cost table or on one with a single time raised.
Rerun ==
    /\ pc = "done" /\ run = 1
    /\ \E t \in RaisedTables(times) : \E o \in Perms(DOMAIN t) :
          /\ times' = t
          /\ order' = o
          /\ queue' = <<initial_state(t)>>
    /\ visited' = <<>>
    /\ min_time' = INF
    /\ cur' = NoEntry
    /\ best_path' = <<>>
    /\ pc' = "loop"
    /\ run' = 2
    /\ prev' = [times |-> times, min_time |-> min_time, best_path |-> best_path]

NextRerun == Next \/ Rerun

SpecRerun == Init /\ [][NextRerun]_vars

\* ------------------------------------------------- the rule-based simulation
\* The "best known strategy" of the simulation cell.
steps == <<<<"A", "B">>, <<"A">>, <<"C", "D">>, <<"B">>, <<"A", "B">>>>

Range(f) == {f[i] : i \in DOMAIN f}

\* step_time = max(times[p] for p in step), under the cost table t
step_time(t, step) == CHOOSE m \in {t[p] : p \in Range(step)} :
                          \A p \in Range(step) : m >= t[p]

\* total_time after the loop `for step in steps`, under the cost table t
RECURSIVE total_time(_, _)
total_time(t, ss) == IF ss = <<>> THEN 0
                     ELSE step_time(t, Head(ss)) + total_time(t, Tail(ss))

\* ------------------------------------------- the puzzle the solver is to solve
\* Transfer capacity of the channel: at most two agents cross together.
Capacity == 2

\* A puzzle state: <<agents on the source side, side of the light>>.
PuzzleStates == (SUBSET People) \X {"left", "right"}
StartState == <<People, "left">>
GoalState == <<{}, "right">>
Illegal == <<{}, "illegal">>

\* Batches that may leave the side the light is on: 1..Capacity agents forward,
\* 1..Capacity-1 agents back.
LegalBatches(s) ==
    IF s[2] = "left"
      THEN {b \in SUBSET s[1] : Cardinality(b) \in 1..Capacity}
      ELSE {b \in SUBSET (People \ s[1]) : Cardinality(b) \in 1..(Capacity - 1)}

MoveTo(s, b) == IF s[2] = "left" THEN <<s[1] \ b, "right">> ELSE <<s[1] \cup b, "left">>

BatchCost(b) == CHOOSE m \in {times[a] : a \in b} : \A a \in b : m >= times[a]

\* The states one legal move before s, each with the batch that moves.
LegalInto(s) ==
    IF s[2] = "right"
      THEN {<<<<s[1] \cup b, "left">>, b>> :
               b \in {c \in SUBSET (People \ s[1]) : Cardinality(c) \in 1..Capacity}}
      ELSE {<<<<s[1] \ b, "right">>, b>> :
               b \in {c \in SUBSET s[1] : Cardinality(c) \in 1..(Capacity - 1)}}

MinOf(S) == IF S = {} THEN INF ELSE CHOOSE m \in S : \A x \in S : m <= x

\* Least total cost of a legal move sequence from StartState to each state (INF:
\* none), as the fixed point of relaxing every legal move.
RECURSIVE Relax(_)
Relax(d) ==
    LET d2 == [s \in PuzzleStates |->
                  MinOf(({d[s]} \ {INF}) \cup
                        {d[ub[1]] + BatchCost(ub[2]) :
                            ub \in {x \in LegalInto(s) : d[x[1]] # INF}})]
    IN IF d2 = d THEN d ELSE Relax(d2)

LeastCost == Relax([s \in PuzzleStates |-> IF s = StartState THEN 0 ELSE INF])

OptimalCost == LeastCost[GoalState]

\* The state a move sequence leads to from s, Illegal if a move of it is not legal.
RECURSIVE ReplayFrom(_, _)
ReplayFrom(s, path) ==
    IF path = <<>> \/ s = Illegal THEN s
    ELSE LET b == Range(Head(path)) IN
         IF b \in LegalBatches(s) /\ Cardinality(b) = Len(Head(path))
           THEN ReplayFrom(MoveTo(s, b), Tail(path))
           ELSE Illegal

\* Sum over the moves of a path of the largest individual time in the move.
RECURSIVE PathCost(_)
PathCost(path) == IF path = <<>> THEN 0
                  ELSE BatchCost(Range(Head(path))) + PathCost(Tail(path))

AllPositive == \A a \in People : times[a] > 0

\* -------------------------------------------------------------------- claims
\* C1: with at least 2 agents and positive costs, when the search loop ends
\* min_time is the least total cost of any legal move sequence from the initial
\* state to the goal.
MinTimeIsOptimal ==
    (pc = "done" /\ Cardinality(People) >= 2 /\ AllPositive) => min_time = OptimalCost

\* C1 witness: a finished search over three agents with unequal positive costs.
MinTimeIsOptimalWitness ==
    /\ pc = "done" /\ Cardinality(People) = 3 /\ AllPositive
    /\ times["A"] = 1 /\ times["B"] = 2 /\ times["C"] = 2
    /\ min_time = 5 /\ OptimalCost = 5

\* C2: on A:1, B:2, C:5, D:8 the solver ends with min_time = 15, and the sequence
\* (A,B), (A), (C,D), (B), (A,B) is legal, reaches the goal, and costs 2, 1, 8, 2, 2,
\* which sum to 15.
ABCDTakes15 ==
    pc = "done" =>
        /\ min_time = 15
        /\ ReplayFrom(StartState, steps) = GoalState
        /\ [i \in 1..Len(steps) |-> step_time(times, steps[i])] = <<2, 1, 8, 2, 2>>
        /\ total_time(times, steps) = 15

\* C2 witness: the search on the notebook's input ends with the recorded output.
ABCDTakes15Witness ==
    pc = "done" /\ times = TimesABCD /\ min_time = 15 /\ best_path = steps

\* C3: every queue entry's time_spent is the cost of its path, and a finite
\* min_time at the end of the search is the cost of best_path.
TimeIsPathCost ==
    /\ \A i \in 1..Len(queue) : queue[i].time_spent = PathCost(queue[i].path)
    /\ (pc = "done" /\ min_time # INF) => min_time = PathCost(best_path)

\* C3 witness: a finished search with a finite, non-zero min_time over a path of
\* several moves.
TimeIsPathCostWitness ==
    pc = "done" /\ min_time # INF /\ min_time > 0 /\ Len(best_path) >= 3

\* A configuration the solver is meant to accept: some agent, every cost positive
\* (the capacity is fixed at 2).
ValidConfiguration == Cardinality(People) >= 1 /\ AllPositive

\* The side of the light after the first i moves of a path replayed from the start.
LightAfter(path, i) == ReplayFrom(StartState, SubSeq(path, 1, i))[2]

\* C4: for every valid configuration the returned sequence starts and ends with a
\* forward move, alternates forward (odd positions) and return (even positions),
\* and replayed from the initial state ends with every agent and the light on the
\* destination side.
PathAlternatesToGoal ==
    (pc = "done" /\ ValidConfiguration) =>
        /\ Len(best_path) % 2 = 1
        /\ \A i \in 1..Len(best_path) :
              LightAfter(best_path, i) = IF i % 2 = 1 THEN "right" ELSE "left"
        /\ ReplayFrom(StartState, best_path) = GoalState

\* C5: in every queue entry and every recorded state, left and right are disjoint
\* and together make up the full agent set.
SidesPartitionAgents ==
    /\ \A i \in 1..Len(queue) :
          /\ queue[i].left \cap queue[i].right = {}
          /\ queue[i].left \cup queue[i].right = People
    /\ \A s \in DOMAIN visited :
          /\ s[1] \cap s[2] = {}
          /\ s[1] \cup s[2] = People

\* C5 witness: a recorded state and a queued entry with agents on both sides,
\* the queued one made by a return move.
SidesPartitionAgentsWitness ==
    /\ \E s \in DOMAIN visited : s[1] # {} /\ s[2] # {}
    /\ \E i \in 1..Len(queue) :
          /\ queue[i].left # {} /\ queue[i].right # {}
          /\ queue[i].light = "left"

\* C6: for every agent set with non-negative costs the search loop terminates:
\* the queue becomes empty and the loop is left.
SearchTerminates == <>(pc = "done" /\ queue = <<>>)

\* C6 witness: a finished search over three agents, one of them with cost zero.
SearchTerminatesWitness ==
    /\ pc = "done" /\ queue = <<>>
    /\ Cardinality(People) = 3 /\ \E a \in People : times[a] = 0

\* t and u are cost tables over the same agents, and u is t with one agent's
\* cost made larger.
RaisedOne(t, u) ==
    /\ DOMAIN t = DOMAIN u
    /\ \E a \in DOMAIN t : /\ u[a] > t[a]
                          /\ \A b \in DOMAIN t \ {a} : u[b] = t[b]

\* The moves of a path as sets of agents: (a, b) and (b, a) are the same move.
Batches(path) == [i \in 1..Len(path) |-> Range(path[i])]

\* C7: two executions on identical inputs end with the same total cost and the
\* same move sequence (each move taken as the set of agents that cross).
SameInputSameResult ==
    (pc = "done" /\ run = 2 /\ times = prev.times) =>
        /\ min_time = prev.min_time
        /\ Batches(best_path) = Batches(prev.best_path)

\* C8: when one agent's cost is larger in the second table and all else is equal,
\* the total of the second execution is not smaller than that of the first.
RaisedCostNeverLowersTotal ==
    (pc = "done" /\ run = 2 /\ RaisedOne(prev.times, times)) =>
        ~LessThan(min_time, prev.min_time)

\* C8 witness: a second execution with one cost raised that ends with a strictly
\* larger total than the first.
RaisedCostNeverLowersTotalWitness ==
    /\ pc = "done" /\ run = 2 /\ RaisedOne(prev.times, times)
    /\ Cardinality(People) = 3
    /\ prev.min_time # INF /\ min_time > prev.min_time

\* C9: with as many agents as the capacity (2), the returned sequence is one
\* forward move carrying both agents and the total is the larger individual cost
\* (2 for A:1, B:2).
TwoAgentsCrossOnce ==
    (pc = "done" /\ Cardinality(People) = Capacity) =>
        /\ Len(best_path) = 1
        /\ Range(best_path[1]) = People
        /\ min_time = BatchCost(People)
        /\ (times["A"] = 1 /\ times["B"] = 2) => min_time = 2

\* C9 witness: the finished search on A:1, B:2.
TwoAgentsCrossOnceWitness ==
    /\ pc = "done" /\ People = {"A", "B"}
    /\ times["A"] = 1 /\ times["B"] = 2
    /\ min_time = 2 /\ Len(best_path) = 1

\* C10: on three agents of cost 1 the solver ends with total 3 and three moves:
\* a pair forward, one agent back, a pair forward, each of cost 1.
ThreeUnitAgentsTake3 ==
    (pc = "done" /\ Cardinality(People) = 3 /\ \A a \in People : times[a] = 1) =>
        /\ min_time = 3
        /\ Len(best_path) = 3
        /\ <<Len(best_path[1]), Len(best_path[2]), Len(best_path[3])>> = <<2, 1, 2>>
        /\ \A i \in 1..3 : step_time(times, best_path[i]) = 1
        /\ ReplayFrom(StartState, best_path) = GoalState

\* C10 witness: the finished search on A:1, B:1, C:1, returning the sequence
\* (A,B), (A), (A,C).
ThreeUnitAgentsTake3Witness ==
    /\ pc = "done" /\ People = {"A", "B", "C"} /\ \A a \in People : times[a] = 1
    /\ min_time = 3
    /\ best_path = <<<<"A", "B">>, <<"A">>, <<"A", "C">>>>

\* state_id of the goal: nobody on the left, everybody and the light on the right.
GoalId == <<{}, People, "right">>

\* Some goal entry has been popped: the first one popped is never stale, so it
\* is recorded.
GoalPopped == GoalId \in DOMAIN visited

\* C11: for every non-empty agent set the goal is reached through the moves the
\* solver generates: the search never ends without having popped a goal entry.
GoalAlwaysPopped == (pc = "done" /\ People # {}) => GoalPopped

\* C12: exhaustion without a goal is told apart from every success, a success
\* of total cost 0 included: min_time is finite exactly when a goal entry has
\* been popped.
FiniteIffGoalPopped ==
    /\ GoalPopped => (min_time # INF /\ min_time >= 0)
    /\ ~GoalPopped => (min_time = INF /\ best_path = <<>>)

\* C12 witness: the queue of a non-empty agent set is exhausted without a goal.
FiniteIffGoalPoppedWitness ==
    pc = "done" /\ queue = <<>> /\ People # {} /\ ~GoalPopped /\ min_time = INF

\* C13: an empty agent set or a cost that is not strictly positive is rejected
\* before the search begins: nothing is popped or expanded, and no total cost or
\* move sequence is returned.
InvalidConfigurationRejected ==
    ~ValidConfiguration =>
        /\ cur = NoEntry /\ visited = <<>>
        /\ min_time = INF /\ best_path = <<>>
        /\ pc # "done"

\* The entries an iteration appended to the queue: what follows Tail(queue).
Appended == SubSeq(queue', Len(queue), Len(queue'))

\* What a successor entry says of the move that made it: who moved, who is on the
\* source side after it, where the light is, and the accumulated cost.
Successor(entry) ==
    [batch |-> Range(entry.path[Len(entry.path)]), left |-> entry.left,
     light |-> entry.light, time_spent |-> entry.time_spent]

\* The iteration now starting expands its entry (it is neither discarded nor a
\* goal), and the entry has the light on the given side.
Expands(side) ==
    /\ pc = "loop" /\ queue # <<>>
    /\ ~IsStale(Head(queue)) /\ ~IsGoal(Head(queue))
    /\ Head(queue).light = side

\* C14: expanding a state with the light on the source side produces exactly one
\* successor per subset of the source-side agents of size 1 to Capacity, each
\* taking the subset off the source side, putting the light on the destination
\* side and adding the subset's largest cost.
ForwardSuccessorsAllBatches ==
    [][Expands("left") =>
        LET e == Head(queue)
            want == {[batch |-> b, left |-> e.left \ b, light |-> "right",
                      time_spent |-> e.time_spent + BatchCost(b)] :
                        b \in {c \in SUBSET e.left : Cardinality(c) \in 1..Capacity}}
        IN /\ Len(Appended) = Cardinality(want)
           /\ {Successor(Appended[i]) : i \in 1..Len(Appended)} = want]_vars

\* C15: expanding a non-goal state with the light on the destination side
\* produces exactly one successor per destination-side agent (Capacity - 1 = 1
\* agent returns), each adding that agent to the source side, putting the light on
\* the source side and adding the agent's cost.
ReturnSuccessorsOnePerAgent ==
    [][Expands("right") =>
        LET e == Head(queue)
            want == {[batch |-> b, left |-> e.left \cup b, light |-> "left",
                      time_spent |-> e.time_spent + BatchCost(b)] :
                        b \in {c \in SUBSET (People \ e.left) :
                                  Cardinality(c) \in 1..(Capacity - 1)}}
        IN /\ Len(Appended) = Cardinality(want)
           /\ {Successor(Appended[i]) : i \in 1..Len(Appended)} = want
           /\ \A i \in 1..Len(Appended) :
                 /\ Appended[i].right = e.right \ Successor(Appended[i]).batch
                 /\ Appended[i].path = Append(e.path, Appended[i].path[Len(e.path) + 1])]_vars

\* C15 witness: the entry just popped had the light and two agents on the
\* destination side, and the queue ends with its two successors.
ReturnSuccessorsOnePerAgentWitness ==
    /\ pc = "loop" /\ cur.light = "right" /\ ~IsGoal(cur)
    /\ Cardinality(cur.right) = 2 /\ Len(queue) >= 2
    /\ \A i \in {Len(queue) - 1, Len(queue)} :
          /\ queue[i].light = "left"
          /\ Len(queue[i].path) = Len(cur.path) + 1
          /\ SubSeq(queue[i].path, 1, Len(cur.path)) = cur.path
          /\ queue[i].time_spent = cur.time_spent + times[queue[i].path[Len(queue[i].path)][1]]
    /\ queue[Len(queue) - 1].left # queue[Len(queue)].left

\* The iteration now starting pops the first goal entry of the search.
PopsFirstGoal ==
    pc = "loop" /\ queue # <<>> /\ IsGoal(Head(queue)) /\ ~GoalPopped

\* C16: the first goal entry popped is globally optimal: its cost is the total
\* finally reported, so min_time, once set by it, never changes again.
FirstGoalCostIsFinal == [][min_time # INF => min_time' = min_time]_vars

\* C16 as amended: the cost of the first goal entry popped is not less than the
\* least total cost, and a goal entry of the least total cost is in the queue at
\* that moment (the first one or a later one).
FirstGoalBoundsOptimum ==
    PopsFirstGoal =>
        LET least == OptimalCost
        IN /\ Head(queue).time_spent >= least
           /\ \E i \in 1..Len(queue) :
                 IsGoal(queue[i]) /\ queue[i].time_spent = least

\* C16 witness: the first goal entry is about to be popped and costs more than
\* the optimum.
FirstGoalBoundsOptimumWitness ==
    PopsFirstGoal /\ Head(queue).time_spent > OptimalCost

\* Two pops in a row: cur is the entry of the last pop, cur' that of this one.
NextPop == cur.light # "unbound" /\ pc' = "loop"

\* C17: entries are popped in non-decreasing order of accumulated cost.
PopsInCostOrder == [][NextPop => cur'.time_spent >= cur.time_spent]_vars

\* C17 as amended: entries are popped in first-in-first-out order, which is
\* non-decreasing in the number of moves of the entry's path (not in cost).
PopsInMoveCountOrder == [][NextPop => Len(cur'.path) >= Len(cur.path)]_vars

\* C17 witness: the entry about to be popped has one more move than the entry
\* popped last, and a smaller accumulated cost.
PopsInMoveCountOrderWitness ==
    /\ pc = "loop" /\ cur.light # "unbound" /\ queue # <<>>
    /\ Len(Head(queue).path) = Len(cur.path) + 1
    /\ Head(queue).time_spent < cur.time_spent

\* C18: a popped entry whose state is recorded at a cost less than or equal to its
\* own is discarded (visited, min_time and best_path unchanged, nothing
\* enqueued); any other popped entry is not: it is recorded at its own cost.
StaleEntriesDiscarded ==
    [][(pc = "loop" /\ queue # <<>>) =>
        LET e == Head(queue)
            id == <<e.left, e.right, e.light>>
        IN IF id \in DOMAIN visited /\ visited[id] <= e.time_spent
             THEN /\ UNCHANGED <<visited, min_time, best_path>>
                  /\ queue' = Tail(queue)
             ELSE /\ id \in DOMAIN visited'
                  /\ visited'[id] = e.time_spent
                  /\ \A s \in DOMAIN visited : s # id =>
                        (s \in DOMAIN visited' /\ visited'[s] = visited[s])]_vars

\* C18 witness: the entry just popped was discarded, its state being recorded at
\* a strictly smaller cost.
StaleEntriesDiscardedWitness ==
    /\ pc = "loop" /\ cur.light # "unbound"
    /\ StateId(cur) \in DOMAIN visited
    /\ visited[StateId(cur)] < cur.time_spent

\* The <<state, total cost>> pairs of the legal move sequences from StartState
\* whose total cost is at most c, as the closure of R under legal moves.
RECURSIVE CostsWithin(_, _)
CostsWithin(R, c) ==
    LET more == UNION {{<<MoveTo(x[1], b), x[2] + BatchCost(b)>> :
                           b \in LegalBatches(x[1])} : x \in R}
        R2 == R \cup {y \in more : y[2] <= c}
    IN IF R2 = R THEN R ELSE CostsWithin(R2, c)

\* The puzzle state a state_id stands for, and back.
PuzzleStateOf(id) == <<id[1], id[3]>>
StateIdOf(s) == <<s[1], People \ s[1], s[2]>>

LargestRecorded ==
    IF DOMAIN visited = {} THEN 0
    ELSE CHOOSE m \in {visited[id] : id \in DOMAIN visited} :
             \A id \in DOMAIN visited : m >= visited[id]

\* C19: visited[s] is always the total cost of some legal move sequence from the
\* initial state to s, and when the search ends it is the least such cost, for
\* every state s that legal moves reach from the initial state.
VisitedIsLeastCost ==
    /\ LET sums == CostsWithin({<<StartState, 0>>}, LargestRecorded)
       IN \A id \in DOMAIN visited : <<PuzzleStateOf(id), visited[id]>> \in sums
    /\ pc = "done" =>
          \A s \in PuzzleStates : LeastCost[s] # INF =>
              /\ StateIdOf(s) \in DOMAIN visited
              /\ visited[StateIdOf(s)] = LeastCost[s]

\* Fewest moves of a legal move sequence from StartState to each state (INF:
\* none), as the fixed point of relaxing every legal move at one move each.
RECURSIVE RelaxMoves(_)
RelaxMoves(d) ==
    LET d2 == [s \in PuzzleStates |->
                  MinOf(({d[s]} \ {INF}) \cup
                        {d[ub[1]] + 1 : ub \in {x \in LegalInto(s) : d[x[1]] # INF}})]
    IN IF d2 = d THEN d ELSE RelaxMoves(d2)

FewestMoves ==
    RelaxMoves([s \in PuzzleStates |-> IF s = StartState THEN 0 ELSE INF])[GoalState]

\* C20: the returned path is move-count-minimal: no legal move sequence from the
\* initial state to the goal has fewer moves than best_path, and a best_path the
\* search found is itself such a sequence, of the fewest moves.
BestPathHasFewestMoves ==
    pc = "done" =>
        /\ FewestMoves # INF => Len(best_path) <= FewestMoves
        /\ min_time # INF =>
              /\ ReplayFrom(StartState, best_path) = GoalState
              /\ Len(best_path) = FewestMoves

\* C20 witness: a finished search over three agents that returns a path of three
\* moves, the fewest that reach the goal.
BestPathHasFewestMovesWitness ==
    /\ pc = "done" /\ Cardinality(People) = 3 /\ min_time # INF
    /\ Len(best_path) = 3 /\ FewestMoves = 3

\* C21: two executions on the same cost table, under any two enumeration orders
\* of the left and right sets, report the same total cost.
TotalIndependentOfOrder ==
    (pc = "done" /\ run = 2 /\ times = prev.times) => min_time = prev.min_time

\* C21 witness: two finished executions on one table of three agents with the
\* same finite total and different move sequences.
TotalIndependentOfOrderWitness ==
    /\ pc = "done" /\ run = 2 /\ times = prev.times
    /\ Cardinality(People) = 3
    /\ min_time # INF /\ min_time = prev.min_time
    /\ Batches(best_path) # Batches(prev.best_path)

\* An iteration that gets past the stale check: it writes visited[state_id] or
\* appends to the queue.
Processes == pc = "loop" /\ queue # <<>> /\ (visited' # visited \/ queue' # Tail(queue))

\* C22: a recorded cost never disappears and never grows, an entry that gets past
\* the stale check for a state already recorded costs strictly less than the
\* record it replaces (so a state is processed again only by a strictly cheaper
\* entry, and at most once per accumulated cost), and min_time never increases.
RecordsOnlyDecrease ==
    [][/\ \A id \in DOMAIN visited :
             id \in DOMAIN visited' /\ visited'[id] <= visited[id]
       /\ Processes =>
             LET e == Head(queue)
                 id == StateId(e)
             IN /\ visited'[id] = e.time_spent
                /\ id \in DOMAIN visited => e.time_spent < visited[id]
       /\ (min_time' = min_time \/ LessThan(min_time', min_time))]_vars

\* C22 witness: the next entry to pop is for a state that was expanded before, at
\* a strictly larger cost, with the light on the left: it is expanded again.
RecordsOnlyDecreaseWitness ==
    /\ pc = "loop" /\ queue # <<>>
    /\ Head(queue).light = "left"
    /\ StateId(Head(queue)) \in DOMAIN visited
    /\ Head(queue).time_spent < visited[StateId(Head(queue))]

====
